---------------------------- MODULE Spec2Model ----------------------------
(***************************************************************************)
(* The authentication composable of the SDK (sdk/src/auth/composable.ts)   *)
(* and the localStorage mutex of the app (useMutex), as state machines.    *)
(*                                                                         *)
(* Scheduling follows the JavaScript event loop: a continuation after an   *)
(* `await` is a microtask (microQ, first in first out); a timer callback,  *)
(* a network response and the passing of time are tasks that run only once *)
(* the microtask queue is empty.  Calls of the public API are made by user *)
(* code, which may itself run in a task or in a microtask, so they may     *)
(* happen between any two steps.  The storage is the default in-memory one *)
(* (get reads the current value when it is called).                        *)
(***************************************************************************)
EXTENDS Integers, Sequences, FiniteSets, TLC

\* ------------------------------------------------------------- bounds
\* The clock stops at MaxTime.
MaxTime == 3
\* The calls of the public API the user makes, all operations together.
MaxOps == 3
\* The calls of refresh(), whoever makes them (user, getToken, timer).
MaxRefresh == 3

\* The mutex instances (one call of acquireMutex each).
NInst == 2
\* The mutex's clock stops after MaxTicks poll intervals.
MaxTicks == 11
MaxWsOut == 4

\* ---------------------------------------------------------- constants
\* JavaScript null (and undefined).
NULL == -1

\* defaultConfigValues.msRefreshBeforeExpires, in units of the model's clock.
msRefreshBeforeExpires == 1

\* Number.MAX_SAFE_INTEGER, scaled to the model's clock.
MAX_SAFE_INTEGER == 1000

\* The access token setToken is called with; the server issues 1, 2, ...
UserToken == 0

\* The mutex's poll interval and retry bound.
timeout == 50
maxRetries == 10

\* The time at which the mutex's clock starts.
Epoch == 1000

\* The lease durations (expiresMs) a mutex instance may be made with.
LeaseVals == {timeout, 2 * timeout}

\* The `expires` values a login or refresh response may carry.
ExpiresVals == {NULL, msRefreshBeforeExpires, msRefreshBeforeExpires + 1}

VARIABLES
  now,             \* new Date().getTime()
  autoRefresh,     \* authConfig.autoRefresh
  realtime,        \* client.features.includes('realtime')
  storage,         \* the record held by the storage
  refreshPromise,  \* NULL, or the id of the refresh it is the promise of
  refreshTimeout,  \* NULL, or the handle of the last timer armed
  timers,          \* the timers pending in the runtime
  nextTimer,       \* the next timer handle the runtime hands out
  refreshes,       \* the calls of refresh(), in order
  calls,           \* the calls of getToken(), in order
  logins,          \* the calls of login(), in order
  logouts,         \* the calls of logout(), in order
  setTokens,       \* the number of setToken() calls made
  microQ,          \* the microtask queue
  issued,          \* the number of credentials the server has issued
  realtimeHandler, \* NULL, or the listener the last login installed
  realtimeRefresh, \* NULL, or the channel's rotation token
  listeners,       \* the message listeners registered on the channel
  wsOut,           \* the messages sent over the channel
  loggedOut,       \* history: a logout completed, and no login, refresh or setToken call since
  tokenSet,        \* history: setToken was called at rest after a login, and no
                   \* login, refresh or logout call since
  lastCred,        \* history: the access token of the credential setCredentials stored last
  clock,           \* Date.now(), as the mutex reads it
  lockItem,        \* localStorage's item under internalKey: NULL, or the number stored
  mx               \* the calls of acquireMutex, one per mutex instance

authVars == <<now, autoRefresh, realtime, storage, refreshPromise, refreshTimeout,
              timers, nextTimer, refreshes, calls, logins, logouts, setTokens,
              microQ, issued, realtimeHandler, realtimeRefresh, listeners, wsOut,
              loggedOut, tokenSet, lastCred>>

mutexVars == <<clock, lockItem, mx>>

vars == <<authVars, mutexVars>>

\* ------------------------------------------------------------ helpers
\* JavaScript truthiness of a number-or-null.
Truthy(x) == x # NULL /\ x # 0

AllNull == [access_token |-> NULL, refresh_token |-> NULL, expires |-> NULL, expires_at |-> NULL]

\* resetStorage(): the record storage.set is called with.
resetStorage == AllNull

\* A refresh whose promise has not settled.
Pending(k) == refreshes[k].status \in {"get", "request"}

Settled == {k \in 1..Len(refreshes) : ~Pending(k)}

InFlight == {k \in 1..Len(refreshes) : Pending(k)}

\* The refresh requests outstanding on the network.
Outstanding == {k \in 1..Len(refreshes) : refreshes[k].status = "request"}

\* The credential a successful response carries.
Response(exp) ==
  [access_token |-> issued + 1, refresh_token |-> issued + 1, expires |-> exp, expires_at |-> NULL]

\* No refresh, login, logout or getToken is under way.
AtRest ==
  /\ InFlight = {}
  /\ \A l \in 1..Len(logins) : logins[l].status # "request"
  /\ \A o \in 1..Len(logouts) : logouts[o].status # "request"
  /\ \A c \in 1..Len(calls) : calls[c].pc = "done"

\* The credentials stored so far (by setCredentials and by setToken).
Stores == issued + setTokens

\* The calls of the public API made so far.
UserOps ==
  Len(calls) + Len(logins) + Len(logouts) + setTokens
    + Cardinality({k \in 1..Len(refreshes) : refreshes[k].by[1] = "user"})

\* ------------------------------------------------------ setCredentials
\* The record setCredentials stores: expires_at = now + (expires ?? 0).
Stamped(data) ==
  [data EXCEPT !.expires_at = now + (IF data.expires = NULL THEN 0 ELSE data.expires)]

\* Whether setCredentials arms the refresh timer.
Arms(data) ==
  LET expires == IF data.expires = NULL THEN 0 ELSE data.expires
  IN autoRefresh /\ expires > msRefreshBeforeExpires /\ expires < MAX_SAFE_INTEGER

\* clearTimeout(h): the timers left pending.
clearTimeout(h) == {t \in timers : t.id # h}

setCredentials(data) ==
  /\ storage' = Stamped(data)
  /\ lastCred' = data.access_token
  /\ IF Arms(data)
     THEN /\ timers' = (IF Truthy(refreshTimeout) THEN clearTimeout(refreshTimeout) ELSE timers)
                         \cup {[id |-> nextTimer,
                                due |-> now + data.expires - msRefreshBeforeExpires,
                                cred |-> data.access_token]}
          /\ refreshTimeout' = nextTimer
          /\ nextTimer' = nextTimer + 1
     ELSE UNCHANGED <<timers, refreshTimeout, nextTimer>>

\* ------------------------------------------------------------- refresh
\* refresh(): awaitRefresh() runs up to its `await storage.get()`, and
\* refreshPromise is assigned its promise.  `by` is who called.
NewRefresh(by) ==
  [status |-> "get", by |-> by, waiters |-> <<>>, token |-> NULL,
   \* history: the credentials stored when the request was sent
   stores |-> NULL]

\* ------------------------------------------------------------ getToken
\* Whether refreshIfExpired, resumed with authData, calls refresh().
Expired(authData) ==
  /\ ~Truthy(refreshPromise)
  /\ Truthy(authData.expires_at)
  /\ authData.expires_at < now + msRefreshBeforeExpires

\* getToken() x n, called one after the other in one synchronous block: each
\* runs refreshIfExpired up to its `await storage.get()`.
NewCall(b) ==
  [pc |-> "gt1", authData |-> storage, awaiting |-> NULL, result |-> <<"none", NULL>>,
   \* history: the state of the session when the call was made
   batch |-> b,
   expiredAtCall |-> (Truthy(storage.expires_at)
                        /\ storage.expires_at < now + msRefreshBeforeExpires),
   idleAtCall |-> (InFlight = {}),
   quietAtCall |-> AtRest,
   opsAtCall |-> UserOps,
   refreshesAtCall |-> Len(refreshes),
   settledAtCall |-> Settled]

RECURSIVE NewCalls(_, _)
NewCalls(b, n) == IF n = 0 THEN <<>> ELSE Append(NewCalls(b, n - 1), NewCall(b))

RECURSIVE Gt1s(_, _)
Gt1s(first, n) == IF n = 0 THEN <<>> ELSE Append(Gt1s(first, n - 1), <<"gt1", first + n - 1>>)

GetToken(n) ==
  /\ UNCHANGED mutexVars
  /\ UserOps + n <= MaxOps
  /\ calls' = calls \o NewCalls(Len(calls) + 1, n)
  /\ microQ' = microQ \o Gt1s(Len(calls) + 1, n)
  /\ UNCHANGED <<now, autoRefresh, realtime, storage, refreshPromise, refreshTimeout,
                 timers, nextTimer, refreshes, logins, logouts, setTokens, issued,
                 realtimeHandler, realtimeRefresh, listeners, wsOut, loggedOut,
                 tokenSet, lastCred>>

\* refreshIfExpired resumed after `await storage.get()` (lines 48-59): it calls
\* refresh() if the token has expired and then awaits refreshPromise in
\* activeRefresh.
ResumeRefreshIfExpired(c) ==
  LET starts == Expired(calls[c].authData)
      k == IF starts THEN Len(refreshes) + 1 ELSE refreshPromise
      rs == IF starts THEN Append(refreshes, NewRefresh(<<"getToken", c>>)) ELSE refreshes
      waits == k # NULL /\ rs[k].status \in {"get", "request"}
  IN /\ starts => Len(refreshes) < MaxRefresh
     /\ refreshPromise' = k
     /\ refreshes' = IF waits THEN [rs EXCEPT ![k].waiters = Append(@, c)] ELSE rs
     /\ calls' = [calls EXCEPT ![c].pc = "gtw", ![c].awaiting = k]
     /\ microQ' = Tail(microQ)
                    \o (IF starts THEN <<<<"rf", k>>>> ELSE <<>>)
                    \o (IF waits THEN <<>> ELSE <<<<"gtw", c>>>>)
     /\ UNCHANGED mutexVars
     /\ UNCHANGED <<now, autoRefresh, realtime, storage, refreshTimeout, timers,
                    nextTimer, logins, logouts, setTokens, issued, realtimeHandler,
                    realtimeRefresh, listeners, wsOut, loggedOut, tokenSet, lastCred>>

\* Outcome with the rejection swallowed, as a `catch {}` in activeRefresh would.
OutcomeSwallowed(k) == <<"none", NULL>>

\* What a caller awaiting the promise of refresh k observes once it has settled.
Outcome(k) ==
  IF k # NULL /\ refreshes[k].status = "failed" THEN <<"err", k>> ELSE <<"none", NULL>>

\* activeRefresh resumed after `await refreshPromise` (lines 39-41): the finally
\* clears refreshPromise; a rejection propagates through refreshIfExpired to
\* the caller of getToken.
ResumeActiveRefresh(c) ==
  LET out == Outcome(calls[c].awaiting)
  IN /\ UNCHANGED mutexVars
     /\ refreshPromise' = NULL
     /\ IF out[1] = "err"
        THEN /\ calls' = [calls EXCEPT ![c].pc = "done", ![c].result = out]
             /\ microQ' = Tail(microQ)
        ELSE /\ calls' = [calls EXCEPT ![c].pc = "gtr"]
             /\ microQ' = Append(Tail(microQ), <<"gtr", c>>)
     /\ UNCHANGED <<now, autoRefresh, realtime, storage, refreshTimeout, timers,
                    nextTimer, refreshes, logins, logouts, setTokens, issued,
                    realtimeHandler, realtimeRefresh, listeners, wsOut, loggedOut,
                    tokenSet, lastCred>>

\* getToken after refreshIfExpired has returned (lines 206-207).
ReturnToken(c) ==
  /\ UNCHANGED mutexVars
  /\ calls' = [calls EXCEPT ![c].pc = "done", ![c].result = <<"ok", storage.access_token>>]
  /\ microQ' = Tail(microQ)
  /\ UNCHANGED <<now, autoRefresh, realtime, storage, refreshPromise, refreshTimeout,
                 timers, nextTimer, refreshes, logins, logouts, setTokens, issued,
                 realtimeHandler, realtimeRefresh, listeners, wsOut, loggedOut,
                 tokenSet, lastCred>>

\* awaitRefresh resumed after `await storage.get()` (lines 83-106): the record
\* is cleared and the request is sent.
SendRefresh(k) ==
  /\ UNCHANGED mutexVars
  /\ storage' = resetStorage
  /\ refreshes' = [refreshes EXCEPT ![k].status = "request", ![k].stores = Stores]
  /\ microQ' = Tail(microQ)
  /\ UNCHANGED <<now, autoRefresh, realtime, refreshPromise, refreshTimeout, timers,
                 nextTimer, calls, logins, logouts, setTokens, issued, realtimeHandler,
                 realtimeRefresh, listeners, wsOut, loggedOut, tokenSet, lastCred>>

\* The microtask at the head of the queue runs.
Microtask ==
  /\ microQ # <<>>
  /\ LET m == Head(microQ)
     IN \/ m[1] = "gt1" /\ ResumeRefreshIfExpired(m[2])
        \/ m[1] = "gtw" /\ ResumeActiveRefresh(m[2])
        \/ m[1] = "gtr" /\ ReturnToken(m[2])
        \/ m[1] = "rf" /\ SendRefresh(m[2])

\* The continuations of the callers awaiting refresh k, in the order they subscribed.
RECURSIVE Wake(_)
Wake(ws) == IF ws = <<>> THEN <<>> ELSE <<<<"gtw", Head(ws)>>>> \o Wake(Tail(ws))

\* The /auth/refresh request of refresh k succeeds (lines 106-109).
RefreshOk(k, exp) ==
  /\ UNCHANGED mutexVars
  /\ microQ = <<>>
  /\ refreshes[k].status = "request"
  /\ setCredentials(Response(exp))
  /\ issued' = issued + 1
  /\ refreshes' = [refreshes EXCEPT ![k].status = "ok", ![k].token = issued + 1]
  /\ microQ' = Wake(refreshes[k].waiters)
  /\ UNCHANGED <<now, autoRefresh, realtime, refreshPromise, calls, logins, logouts,
                 setTokens, realtimeHandler, realtimeRefresh, listeners, wsOut,
                 loggedOut, tokenSet>>

\* What a failed refresh request leaves of the session's state (line 106 throws:
\* nothing after it runs).
FailedRefresh(k) ==
  /\ refreshes' = [refreshes EXCEPT ![k].status = "failed"]
  /\ microQ' = Wake(refreshes[k].waiters)
  /\ UNCHANGED <<storage, refreshPromise, refreshTimeout, timers, nextTimer, lastCred>>

\* The /auth/refresh request of refresh k fails.
RefreshFail(k) ==
  /\ UNCHANGED mutexVars
  /\ microQ = <<>>
  /\ refreshes[k].status = "request"
  /\ FailedRefresh(k)
  /\ UNCHANGED <<now, autoRefresh, realtime, calls, logins, logouts, setTokens, issued,
                 realtimeHandler, realtimeRefresh, listeners, wsOut, loggedOut, tokenSet>>

\* refresh() called by the user of the client.
Refresh ==
  /\ UNCHANGED mutexVars
  /\ UserOps < MaxOps
  /\ Len(refreshes) < MaxRefresh
  /\ refreshes' = Append(refreshes, NewRefresh(<<"user", 0>>))
  /\ refreshPromise' = Len(refreshes) + 1
  /\ microQ' = Append(microQ, <<"rf", Len(refreshes) + 1>>)
  /\ tokenSet' = FALSE
  /\ loggedOut' = FALSE
  /\ UNCHANGED <<now, autoRefresh, realtime, storage, refreshTimeout, timers, nextTimer,
                 calls, logins, logouts, setTokens, issued, realtimeHandler,
                 realtimeRefresh, listeners, wsOut, lastCred>>

\* The callback of the timer setCredentials armed (lines 70-76).
TimerFires(t) ==
  /\ UNCHANGED mutexVars
  /\ microQ = <<>>
  /\ t \in timers
  /\ t.due <= now
  /\ Len(refreshes) < MaxRefresh
  /\ timers' = timers \ {t}
  /\ refreshTimeout' = NULL
  /\ refreshes' = Append(refreshes, NewRefresh(<<"timer", t.cred>>))
  /\ refreshPromise' = Len(refreshes) + 1
  /\ microQ' = <<<<"rf", Len(refreshes) + 1>>>>
  /\ UNCHANGED <<now, autoRefresh, realtime, storage, nextTimer, calls, logins, logouts,
                 setTokens, issued, realtimeHandler, realtimeRefresh, listeners, wsOut,
                 loggedOut, tokenSet, lastCred>>

\* Time passes; a timer that is due fires before it does.
Tick ==
  /\ UNCHANGED mutexVars
  /\ microQ = <<>>
  /\ now < MaxTime
  /\ \A t \in timers : t.due > now
  /\ now' = now + 1
  /\ UNCHANGED <<autoRefresh, realtime, storage, refreshPromise, refreshTimeout, timers,
                 nextTimer, refreshes, calls, logins, logouts, setTokens, microQ, issued,
                 realtimeHandler, realtimeRefresh, listeners, wsOut, loggedOut, tokenSet,
                 lastCred>>

\* --------------------------------------------------------------- login
\* login(): the record is cleared and the request is sent (lines 123-143).
Login ==
  /\ UNCHANGED mutexVars
  /\ UserOps < MaxOps
  /\ storage' = resetStorage
  /\ logins' = Append(logins, [status |-> "request", token |-> NULL,
                               \* history: the calls made before this one, and
                               \* the refreshes started before it completed
                               opsAtCall |-> UserOps, refreshesAtOk |-> NULL])
  /\ loggedOut' = FALSE
  /\ tokenSet' = FALSE
  /\ UNCHANGED <<now, autoRefresh, realtime, refreshPromise, refreshTimeout, timers,
                 nextTimer, refreshes, calls, logouts, setTokens, microQ, issued,
                 realtimeHandler, realtimeRefresh, listeners, wsOut, lastCred>>

\* The /auth/login request succeeds (lines 145-172): the credential is stored
\* and, with the real-time feature, a message listener is installed and the
\* auth message sent.
LoginOk(l, exp) ==
  /\ UNCHANGED mutexVars
  /\ microQ = <<>>
  /\ logins[l].status = "request"
  /\ setCredentials(Response(exp))
  /\ issued' = issued + 1
  /\ logins' = [logins EXCEPT ![l].status = "ok", ![l].token = issued + 1,
                              ![l].refreshesAtOk = Len(refreshes)]
  /\ IF realtime
     THEN /\ listeners' = listeners \cup {l}
          /\ realtimeHandler' = l
          /\ wsOut' = Append(wsOut, <<"password", l>>)
     ELSE UNCHANGED <<listeners, realtimeHandler, wsOut>>
  /\ loggedOut' = FALSE
  /\ UNCHANGED <<now, autoRefresh, realtime, refreshPromise, refreshes, calls, logouts,
                 setTokens, microQ, realtimeRefresh, tokenSet>>

\* The /auth/login request fails (line 143 throws).
LoginFail(l) ==
  /\ UNCHANGED mutexVars
  /\ microQ = <<>>
  /\ logins[l].status = "request"
  /\ logins' = [logins EXCEPT ![l].status = "failed"]
  /\ UNCHANGED <<now, autoRefresh, realtime, storage, refreshPromise, refreshTimeout,
                 timers, nextTimer, refreshes, calls, logouts, setTokens, microQ, issued,
                 realtimeHandler, realtimeRefresh, listeners, wsOut, loggedOut, tokenSet,
                 lastCred>>

\* -------------------------------------------------------------- logout
\* logout(): the request is sent (lines 175-197; the record read first only
\* shapes the body).
Logout ==
  /\ UNCHANGED mutexVars
  /\ UserOps < MaxOps
  /\ logouts' = Append(logouts, [status |-> "request",
                                 \* history: the state of the session at the call
                                 quietAtCall |-> AtRest, opsAtCall |-> UserOps])
  /\ tokenSet' = FALSE
  /\ UNCHANGED <<now, autoRefresh, realtime, storage, refreshPromise, refreshTimeout,
                 timers, nextTimer, refreshes, calls, logins, setTokens, microQ, issued,
                 realtimeHandler, realtimeRefresh, listeners, wsOut, loggedOut, lastCred>>

\* What logout does once its request has returned (lines 199-201).
LogoutCleanup ==
  /\ listeners' = (IF Truthy(realtimeHandler) THEN listeners \ {realtimeHandler} ELSE listeners)
  /\ timers' = (IF Truthy(refreshTimeout) THEN clearTimeout(refreshTimeout) ELSE timers)
  /\ storage' = resetStorage

\* The /auth/logout request succeeds.
LogoutOk(o) ==
  /\ UNCHANGED mutexVars
  /\ microQ = <<>>
  /\ logouts[o].status = "request"
  /\ logouts' = [logouts EXCEPT ![o].status = "ok"]
  /\ LogoutCleanup
  /\ loggedOut' = TRUE
  /\ UNCHANGED <<now, autoRefresh, realtime, refreshPromise, refreshTimeout, nextTimer,
                 refreshes, calls, logins, setTokens, microQ, issued, realtimeHandler,
                 realtimeRefresh, wsOut, tokenSet, lastCred>>

\* What logout does when its request fails (line 197 throws: lines 199-201 are
\* not reached).
LogoutFailed == UNCHANGED <<listeners, timers, storage>>

\* The /auth/logout request fails.
LogoutFail(o) ==
  /\ UNCHANGED mutexVars
  /\ microQ = <<>>
  /\ logouts[o].status = "request"
  /\ logouts' = [logouts EXCEPT ![o].status = "failed"]
  /\ LogoutFailed
  /\ UNCHANGED <<now, autoRefresh, realtime, refreshPromise, refreshTimeout, nextTimer,
                 refreshes, calls, logins, setTokens, microQ, issued, realtimeHandler,
                 realtimeRefresh, wsOut, loggedOut, tokenSet, lastCred>>

\* ------------------------------------------------------------ setToken
\* setToken(access_token) (lines 209-216).
SetToken ==
  /\ UNCHANGED mutexVars
  /\ UserOps < MaxOps
  /\ setTokens' = setTokens + 1
  /\ storage' = [access_token |-> UserToken, refresh_token |-> NULL,
                 expires |-> NULL, expires_at |-> NULL]
  /\ loggedOut' = FALSE
  /\ tokenSet' = (AtRest /\ \E l \in 1..Len(logins) : logins[l].status = "ok")
  /\ UNCHANGED <<now, autoRefresh, realtime, refreshPromise, refreshTimeout, timers,
                 nextTimer, refreshes, calls, logins, logouts, microQ, issued,
                 realtimeHandler, realtimeRefresh, listeners, wsOut, lastCred>>

\* ------------------------------------------------------- specification
\* The session as authentication() returns it, with the configuration given.
InitAuth(auto, rt) ==
  /\ now = 1
  /\ autoRefresh = auto
  /\ realtime = rt
  /\ storage = AllNull
  /\ refreshPromise = NULL
  /\ refreshTimeout = NULL
  /\ timers = {}
  /\ nextTimer = 1
  /\ refreshes = <<>>
  /\ calls = <<>>
  /\ logins = <<>>
  /\ logouts = <<>>
  /\ setTokens = 0
  /\ microQ = <<>>
  /\ issued = 0
  /\ realtimeHandler = NULL
  /\ realtimeRefresh = NULL
  /\ listeners = {}
  /\ wsOut = <<>>
  /\ loggedOut = FALSE
  /\ tokenSet = FALSE
  /\ lastCred = NULL

\* ------------------------------------------------------ real-time channel
\* refresh_token of an inbound auth/ok message (line 153): absent or a token.
RotationVals == {NULL, 1, 2}

\* The inbound messages the listener tells apart (lines 151-160): auth/ok with
\* its refresh_token, auth/error with code TOKEN_EXPIRED, anything else.
WsMessages ==
  {<<"ok", r>> : r \in RotationVals} \cup {<<"expired", NULL>>, <<"other", NULL>>}

\* n auth messages carrying the rotation token r (line 159).
RECURSIVE Reauth(_, _)
Reauth(n, r) == IF n = 0 THEN <<>> ELSE <<<<"refresh", r>>>> \o Reauth(n - 1, r)

\* The channel delivers a message: every listener login() has registered and
\* nothing has removed runs the handler of lines 151-161 on it. The handlers
\* share realtimeRefresh and the channel.
WsMessage(msg) ==
  /\ UNCHANGED mutexVars
  /\ microQ = <<>>
  /\ Len(wsOut) + Cardinality(listeners) <= MaxWsOut
  /\ realtimeRefresh' =
       (IF listeners # {} /\ msg[1] = "ok" THEN msg[2] ELSE realtimeRefresh)
  /\ wsOut' =
       (IF msg[1] = "expired" /\ Truthy(realtimeRefresh)
        THEN wsOut \o Reauth(Cardinality(listeners), realtimeRefresh)
        ELSE wsOut)
  /\ UNCHANGED <<now, autoRefresh, realtime, storage, refreshPromise, refreshTimeout,
                 timers, nextTimer, refreshes, calls, logins, logouts, setTokens,
                 microQ, issued, realtimeHandler, listeners, loggedOut, tokenSet,
                 lastCred>>

\* The mutex instances as useMutex returns them, with the leases given.
InitMutex(lease) ==
  /\ clock = Epoch
  /\ lockItem = NULL
  /\ mx = [i \in 1..NInst |->
            [expiresMs |-> lease[i], pc |-> "idle", retries |-> 0,
             hasAcquiredMutex |-> FALSE, wake |-> NULL,
             \* history: the record the call wrote, and whether a pass left
             \* alone a record of a dead holder whose time had passed
             wrote |-> NULL, refusedExpired |-> FALSE]]

Init ==
  /\ \E auto \in BOOLEAN, rt \in BOOLEAN : InitAuth(auto, rt)
  /\ InitMutex([i \in 1..NInst |-> timeout])

Next ==
  \/ \E n \in 1..MaxOps : GetToken(n)
  \/ Microtask
  \/ Refresh
  \/ \E k \in 1..Len(refreshes), exp \in ExpiresVals : RefreshOk(k, exp)
  \/ \E k \in 1..Len(refreshes) : RefreshFail(k)
  \/ \E t \in timers : TimerFires(t)
  \/ Tick
  \/ Login
  \/ \E l \in 1..Len(logins), exp \in ExpiresVals : LoginOk(l, exp)
  \/ \E l \in 1..Len(logins) : LoginFail(l)
  \/ Logout
  \/ \E o \in 1..Len(logouts) : LogoutOk(o)
  \/ \E o \in 1..Len(logouts) : LogoutFail(o)
  \/ SetToken

Spec == Init /\ [][Next]_vars

\* A session with the real-time feature and no scheduled refresh, its logins
\* and logouts, and the messages of its channel.
RealtimeInit ==
  /\ InitAuth(FALSE, TRUE)
  /\ InitMutex([i \in 1..NInst |-> timeout])

RealtimeNext ==
  \/ Login
  \/ \E l \in 1..Len(logins), exp \in ExpiresVals : LoginOk(l, exp)
  \/ \E l \in 1..Len(logins) : LoginFail(l)
  \/ Logout
  \/ \E o \in 1..Len(logouts) : LogoutOk(o)
  \/ \E o \in 1..Len(logouts) : LogoutFail(o)
  \/ \E msg \in WsMessages : WsMessage(msg)

SpecRealtime == RealtimeInit /\ [][RealtimeNext]_vars

\* --------------------------------------------------- localStorageLock
\* Whether the loop of localStorageLock takes the lock (line 31).
Free(i) == lockItem = NULL \/ lockItem > clock + mx[i].expiresMs

\* The record is that of a holder that died, and its time has passed.
DeadHolderExpired ==
  /\ lockItem # NULL
  /\ lockItem <= clock
  /\ \E j \in 1..NInst : mx[j].pc = "dead" /\ mx[j].wrote = lockItem

\* One pass of the loop from its top (lines 29-42): the lock is taken and the
\* callback started, or the call sleeps for `timeout`.
Attempt(i, retries) ==
  IF Free(i)
  THEN /\ lockItem' = clock + mx[i].expiresMs
       /\ mx' = [mx EXCEPT ![i].pc = "callback", ![i].hasAcquiredMutex = TRUE,
                           ![i].retries = retries,
                           ![i].wrote = clock + mx[i].expiresMs]
  ELSE /\ mx' = [mx EXCEPT ![i].pc = "sleep", ![i].wake = clock + timeout,
                           ![i].retries = retries,
                           ![i].refusedExpired = (@ \/ DeadHolderExpired)]
       /\ UNCHANGED lockItem

\* The finally block without its test: the record is removed on every exit.
ReleaseAlways(i) == NULL

\* The finally block left out: the record is never removed.
ReleaseNever(i) == lockItem

\* The finally block (lines 47-50): the item left in localStorage.
Release(i) == IF mx[i].hasAcquiredMutex THEN NULL ELSE lockItem

\* acquireMutex(callback) without navigator.locks: localStorageLock runs up to
\* its first await.
Acquire(i) ==
  /\ mx[i].pc = "idle"
  /\ Attempt(i, 0)
  /\ UNCHANGED <<clock, authVars>>

\* sleep(timeout) is over (lines 43-44): the next pass, or the loop ends and
\* the call returns without the lock.
Retry(i) ==
  /\ mx[i].pc = "sleep"
  /\ mx[i].wake <= clock
  /\ IF mx[i].retries + 1 < maxRetries
     THEN Attempt(i, mx[i].retries + 1)
     ELSE /\ mx' = [mx EXCEPT ![i].pc = "gaveup", ![i].retries = mx[i].retries + 1]
          /\ lockItem' = Release(i)
  /\ UNCHANGED <<clock, authVars>>

\* The callback's promise resolves: break, then the finally block.
CallbackReturns(i) ==
  /\ mx[i].pc = "callback"
  /\ lockItem' = Release(i)
  /\ mx' = [mx EXCEPT ![i].pc = "returned"]
  /\ UNCHANGED <<clock, authVars>>

\* The callback's promise rejects: the finally block, and the error propagates.
CallbackThrows(i) ==
  /\ mx[i].pc = "callback"
  /\ lockItem' = Release(i)
  /\ mx' = [mx EXCEPT ![i].pc = "thrown"]
  /\ UNCHANGED <<clock, authVars>>

\* The holder's execution context dies while its callback runs (the tab is
\* closed): nothing of the call runs any more, the finally block included.
HolderDies(i) ==
  /\ mx[i].pc = "callback"
  /\ mx' = [mx EXCEPT ![i].pc = "dead"]
  /\ UNCHANGED <<clock, lockItem, authVars>>

\* One poll interval passes; a sleeper that is due wakes before it does.
ClockTick ==
  /\ clock < Epoch + MaxTicks * timeout
  /\ \A i \in 1..NInst : mx[i].pc = "sleep" => mx[i].wake > clock
  /\ clock' = clock + timeout
  /\ UNCHANGED <<lockItem, mx, authVars>>

MutexInit ==
  /\ InitAuth(TRUE, TRUE)
  /\ \E lease \in [1..NInst -> LeaseVals] : InitMutex(lease)

MutexNext ==
  \/ \E i \in 1..NInst : Acquire(i)
  \/ \E i \in 1..NInst : Retry(i)
  \/ \E i \in 1..NInst : CallbackReturns(i)
  \/ \E i \in 1..NInst : CallbackThrows(i)
  \/ \E i \in 1..NInst : HolderDies(i)
  \/ ClockTick

SpecMutex == MutexInit /\ [][MutexNext]_vars

\* ============================================================== claims

\* The calls of the batch whose first call is b.
Batch(b) == {c \in 1..Len(calls) : calls[c].batch = b}

\* The refreshes started since the batch of b was called.
Since(b) == {k \in 1..Len(refreshes) : k > calls[b].refreshesAtCall}

\* C1: N getToken() calls made together while the stored token is expired and
\* no refresh is in flight issue exactly one refresh request, and when it
\* succeeds every one of the N calls resolves to the token it returned.  (The
\* batch is the user's last call and no login or logout was under way, so that
\* nothing but the session itself acts.)
C1_SingleFlight ==
  \A b \in 1..Len(calls) :
    ( /\ calls[b].batch = b
      /\ calls[b].expiredAtCall
      /\ calls[b].idleAtCall
      /\ calls[b].quietAtCall
      /\ calls[b].opsAtCall + Cardinality(Batch(b)) = UserOps
      /\ \A c \in Batch(b) : calls[c].pc = "done" )
    => /\ Cardinality(Since(b)) = 1
       /\ \A k \in Since(b) :
            refreshes[k].status = "ok"
              => \A c \in Batch(b) : calls[c].result = <<"ok", refreshes[k].token>>

\* C2: at most one /auth/refresh request is outstanding at any time.
C2_AtMostOneOutstanding == Cardinality(Outstanding) <= 1

\* C3: once logout() has completed, and until the user calls login, refresh or
\* setToken again, the record stays all-null and no refresh timer is pending.
C3_LogoutIsFinal == loggedOut => (storage = AllNull /\ timers = {})

\* C4: when the /auth/logout request fails, logout() has still cancelled the
\* refresh timer, removed the real-time listener and cleared the record.  (The
\* logout was called at rest and is the user's last call.)
C4_CleanupOnFailedLogout ==
  [][ (\E o \in 1..Len(logouts) :
         /\ logouts[o].status = "request" /\ logouts'[o].status = "failed"
         /\ logouts[o].quietAtCall /\ logouts[o].opsAtCall + 1 = UserOps)
      => /\ storage' = AllNull
         /\ \A t \in timers' : t.id # refreshTimeout
         /\ realtimeHandler \notin listeners' ]_vars

\* C5 (state): a getToken() that awaited a refresh that failed has failed with
\* that refresh's error, and the record is all-null for as long as no
\* credential is stored after the failed request was sent.
C5_State ==
  /\ \A c \in 1..Len(calls) :
       LET k == calls[c].awaiting
       IN (calls[c].pc \in {"gtr", "done"} /\ k # NULL /\ refreshes[k].status = "failed")
            => (calls[c].pc = "done" /\ calls[c].result = <<"err", k>>)
  /\ \A k \in 1..Len(refreshes) :
       (refreshes[k].status = "failed" /\ refreshes[k].stores = Stores)
         => storage = AllNull

\* C5 (step): the step in which a refresh request fails writes no record, arms
\* no timer and starts no refresh.
C5_Step ==
  (\E k \in 1..Len(refreshes) :
     refreshes[k].status = "request" /\ refreshes'[k].status = "failed")
  => /\ storage' = storage
     /\ timers' = timers
     /\ refreshTimeout' = refreshTimeout
     /\ Len(refreshes') = Len(refreshes)
     /\ Outstanding' \subseteq Outstanding

\* C5: a failed refresh is error-transparent and not retried.
C5_FailedRefreshTransparent == []C5_State /\ [][C5_Step]_vars

\* C5 witness: a getToken() joined a refresh in flight, the refresh failed and
\* the call has failed with its error.
C5_Witness ==
  \E c \in 1..Len(calls) :
    /\ calls[c].pc = "done"
    /\ calls[c].result[1] = "err"
    /\ calls[c].result[2] \notin calls[c].settledAtCall
    /\ storage = AllNull

\* C6: a getToken() called after a timer-triggered refresh has failed does not
\* fail with that refresh's error.
C6_SilentDegrade ==
  \A c \in 1..Len(calls) :
    ~ ( /\ calls[c].pc = "done"
        /\ calls[c].result[1] = "err"
        /\ calls[c].result[2] \in calls[c].settledAtCall
        /\ refreshes[calls[c].result[2]].by[1] = "timer" )

\* C7: getToken() does not call refresh() when the record it read was issued
\* with a null `expires`.
C7_NoExpiryPassthrough ==
  \A k \in 1..Len(refreshes) :
    refreshes[k].by[1] = "getToken" => calls[refreshes[k].by[2]].authData.expires # NULL

\* C8: after login and then setToken(tok), and until the user calls login,
\* refresh or logout, the record holds tok alone and no refresh request is sent.
C8_SetTokenDisablesAutoRefresh ==
  tokenSet =>
    /\ storage = [access_token |-> UserToken, refresh_token |-> NULL,
                  expires |-> NULL, expires_at |-> NULL]
    /\ InFlight = {}

\* C9: a refresh timer fires when it is due, and only for the credential
\* setCredentials stored last: a newer credential replaces the pending timer.
C9_SchedulingCorrectness ==
  [][ \A t \in timers :
        (t \notin timers' /\ Len(refreshes') > Len(refreshes))
          => (t.due = now /\ t.cred = lastCred) ]_vars

\* C10: no two callbacks of fallback mutexes on the same key run at the same
\* time, whatever their lease durations, and a call that gave up made its 10
\* attempts and never ran its callback.
C10_MutualExclusion ==
  /\ Cardinality({i \in 1..NInst : mx[i].pc = "callback"}) <= 1
  /\ \A i \in 1..NInst :
       mx[i].pc = "gaveup" => (mx[i].retries = maxRetries /\ ~mx[i].hasAcquiredMutex)

\* C11: a pass of the acquisition loop that reads the record of a dead holder
\* after its expiry time (stored timestamp <= now) takes the lock.
C11_LeaseExpiryFreesLock == \A i \in 1..NInst : ~mx[i].refusedExpired

\* C14 (step): a call that leaves the loop without the lock returns normally
\* after its 10th attempt and leaves the lock record as it is.
C14_Step ==
  \A i \in 1..NInst :
    (mx[i].pc = "sleep" /\ mx'[i].pc \notin {"sleep", "callback"})
      => /\ mx'[i].pc = "gaveup"
         /\ mx'[i].retries = maxRetries
         /\ lockItem' = lockItem

\* C14: a fallback acquire that found the lock held on all 10 attempts ends
\* without an error, without having run its callback and without touching the
\* holder's lock record.
C14_TimeoutIsSilentSkip ==
  /\ [](\A i \in 1..NInst : mx[i].pc = "gaveup" => ~mx[i].hasAcquiredMutex)
  /\ [][C14_Step]_vars

\* C14 witness: a call gave up while the record of another holder is in place.
C14_Witness ==
  \E i \in 1..NInst :
    /\ mx[i].pc = "gaveup"
    /\ \E j \in 1..NInst : mx[j].pc = "callback" /\ lockItem = mx[j].wrote

\* C15 (step): when a call that took ownership returns or throws, the lock
\* record is absent; and only a call that took ownership removes the record.
C15_Step ==
  /\ \A i \in 1..NInst :
       (mx[i].pc = "callback" /\ mx'[i].pc \in {"returned", "thrown"})
         => lockItem' = NULL
  /\ (lockItem # NULL /\ lockItem' = NULL)
       => \E i \in 1..NInst :
            /\ mx[i].hasAcquiredMutex
            /\ mx[i].pc = "callback"
            /\ mx'[i].pc \in {"returned", "thrown"}

\* C15: the fallback mutex releases on every exit path of a call that took
\* ownership, and the record is deleted only by such a call.
C15_ReleaseOnEveryExit == [][C15_Step]_vars

\* C15 witness: a callback raised, its error reached the caller of acquire and
\* the lock record is gone.
C15_Witness ==
  \E i \in 1..NInst : mx[i].pc = "thrown" /\ mx[i].hasAcquiredMutex /\ lockItem = NULL

\* C12 (step): with a listener installed, an inbound auth error TOKEN_EXPIRED
\* puts exactly one auth message carrying the recorded rotation token on the
\* channel, and none when no rotation token is recorded.
C12_Step ==
  (WsMessage(<<"expired", NULL>>) /\ listeners # {})
    => wsOut' = (IF Truthy(realtimeRefresh)
                 THEN Append(wsOut, <<"refresh", realtimeRefresh>>)
                 ELSE wsOut)

\* C12: for any sequence of logins and inbound channel messages, each inbound
\* TOKEN_EXPIRED error after an auth ok carrying refresh_token R causes exactly
\* one outbound {type: auth, refresh_token: R}, and none when no rotation token
\* has been recorded.
C12_ReauthHandshake == [][C12_Step]_vars

\* C20 (step): an inbound TOKEN_EXPIRED error after logout() produces no
\* outbound message.
C20_Step == (WsMessage(<<"expired", NULL>>) /\ loggedOut) => wsOut' = wsOut

\* C20: at most one session-installed listener is registered on the channel at
\* any time, none is registered after logout(), and no inbound TOKEN_EXPIRED
\* after logout produces an outbound auth message.
C20_ListenerAccounting ==
  /\ [](Cardinality(listeners) <= 1 /\ (loggedOut => listeners = {}))
  /\ [][C20_Step]_vars

\* C13: every /auth/refresh request is on the network only while a call of
\* the cross-context mutex holds the lock and runs its callback.
C13_RefreshHoldsMutex ==
  \A k \in Outstanding :
    \E i \in 1..NInst : mx[i].pc = "callback" /\ mx[i].hasAcquiredMutex

\* C16: the stored record has an expiry time exactly when the expiry duration
\* of the credential it holds is non-null.
C16_ExpiresAtIffExpires == (storage.expires_at # NULL) <=> (storage.expires # NULL)

\* C17 (step): straight after a credential is stored a timer is pending exactly
\* when autoRefresh is on and 0 < expires < MAX_SAFE_INTEGER, and a pending
\* timer is the one armed for this credential, due expires - lead from now.
C17_Step ==
  issued' # issued =>
    LET exp == storage'.expires IN
    /\ (timers' # {}) <=>
         (autoRefresh /\ exp # NULL /\ 0 < exp /\ exp < MAX_SAFE_INTEGER)
    /\ \A t \in timers' :
         /\ t.id = refreshTimeout'
         /\ t.cred = storage'.access_token
         /\ t.due = now + exp - msRefreshBeforeExpires

\* C17: at most one scheduled refresh is pending in every state, and storing a
\* credential cancels the timer armed before and arms the one the new
\* credential calls for.
C17_TimerAfterSetCredentials ==
  /\ [](Cardinality(timers) <= 1)
  /\ [][C17_Step]_vars

\* C18: refreshPromise is set exactly while a refresh is in flight.
C18_PromiseIffInFlight == (refreshPromise # NULL) <=> (InFlight # {})

\* C19: after a login() that completed successfully, was the last call made
\* on the session (none of them a logout) and the last login to complete, and
\* as long as no refresh has started since it completed, the stored record is
\* the one of the login response.
C19_LoginNotOvertaken ==
  \A l \in 1..Len(logins) :
    ( /\ logins[l].status = "ok"
      /\ logouts = <<>>
      /\ logins[l].opsAtCall + 1 = UserOps
      /\ \A m \in 1..Len(logins) \ {l} :
           \/ logins[m].status = "failed"
           \/ logins[m].status = "ok" /\ logins[m].token < logins[l].token
      /\ logins[l].refreshesAtOk = Len(refreshes) )
      => storage.access_token = logins[l].token

=============================================================================
